---------------------------- MODULE Spec2Model ----------------------------
(***************************************************************************)
(* Model of src/hugo_blog_manager.py: the content store (authors and       *)
(* articles on disk) and the repository client (fork, clone-or-open,       *)
(* branch, commit, push).                                                  *)
(*                                                                         *)
(* A text is a sequence of fragments.  User input is written one character *)
(* per fragment; the literals of the program are single fragments.  A path *)
(* is the sequence of its segments from the filesystem root, each segment  *)
(* a text.                                                                 *)
(***************************************************************************)
EXTENDS Integers, Sequences, FiniteSets, TLC

VARIABLES dirs, files, now, repos, wc, last, log

vars == <<dirs, files, now, repos, wc, last, log>>

-----------------------------------------------------------------------------
(* Bounds of the model *)

MaxNameLen == 2
MaxAuthorCalls == 2
MaxArticleCalls == 2
MaxGitCalls == 3
MaxFmtLen == 3

-----------------------------------------------------------------------------
(* Text primitives: str.strip, str.replace, str.lower, str.endswith *)

Whitespace == {" ", "\t", "\n"}

UpperCase == <<"A","B","C","D","E","F","G","H","I","J","K","L","M",
               "N","O","P","Q","R","S","T","U","V","W","X","Y","Z">>

LowerCase == <<"a","b","c","d","e","f","g","h","i","j","k","l","m",
               "n","o","p","q","r","s","t","u","v","w","x","y","z">>

DigitChars == <<"0","1","2","3","4","5","6","7","8","9">>

Range(s) == {s[i] : i \in DOMAIN s}

LowerChar(c) ==
    IF \E i \in DOMAIN UpperCase : UpperCase[i] = c
    THEN LowerCase[CHOOSE i \in DOMAIN UpperCase : UpperCase[i] = c]
    ELSE c

RECURSIVE lstrip(_)
lstrip(s) ==
    IF s # <<>> /\ Head(s) \in Whitespace THEN lstrip(Tail(s)) ELSE s

RECURSIVE rstrip(_)
rstrip(s) ==
    IF s # <<>> /\ s[Len(s)] \in Whitespace
    THEN rstrip(SubSeq(s, 1, Len(s) - 1))
    ELSE s

strip(s) == rstrip(lstrip(s))

replace(s, old, new) == [i \in DOMAIN s |-> IF s[i] = old THEN new ELSE s[i]]

lower(s) == [i \in DOMAIN s |-> LowerChar(s[i])]

endswith(s, suffix) ==
    /\ Len(suffix) <= Len(s)
    /\ SubSeq(s, Len(s) - Len(suffix) + 1, Len(s)) = suffix

RECURSIVE Digits(_)
Digits(n) ==
    IF n < 10 THEN <<DigitChars[n + 1]>>
    ELSE Digits(n \div 10) \o <<DigitChars[(n % 10) + 1]>>

(* strftime("%m"), strftime("%d") *)
Pad2(n) == IF n < 10 THEN <<"0">> \o Digits(n) ELSE Digits(n)

(* Code points of the characters the inputs are made of, for sorted() *)
CodePoint(c) ==
    CASE c = "\t" -> 9
      [] c = "\n" -> 10
      [] c = " " -> 32
      [] c = "!" -> 33
      [] c = "," -> 44
      [] c = "-" -> 45
      [] c = "." -> 46
      [] c = "/" -> 47
      [] \E i \in DOMAIN DigitChars : DigitChars[i] = c ->
            47 + (CHOOSE i \in DOMAIN DigitChars : DigitChars[i] = c)
      [] \E i \in DOMAIN UpperCase : UpperCase[i] = c ->
            64 + (CHOOSE i \in DOMAIN UpperCase : UpperCase[i] = c)
      [] \E i \in DOMAIN LowerCase : LowerCase[i] = c ->
            96 + (CHOOSE i \in DOMAIN LowerCase : LowerCase[i] = c)
      [] OTHER -> 127

RECURSIVE TextLess(_, _)
TextLess(s, t) ==
    IF t = <<>> THEN FALSE
    ELSE IF s = <<>> THEN TRUE
    ELSE IF Head(s) = Head(t) THEN TextLess(Tail(s), Tail(t))
    ELSE CodePoint(Head(s)) < CodePoint(Head(t))

RECURSIVE sorted(_)
sorted(S) ==
    IF S = {} THEN <<>>
    ELSE LET m == CHOOSE x \in S : \A y \in S \ {x} : TextLess(x, y)
         IN  <<m>> \o sorted(S \ {m})

-----------------------------------------------------------------------------
(* Configuration *)

HUGO_PROJECT_PATH == << <<"project">> >>
CONTENT_AUTHORS_PATH == HUGO_PROJECT_PATH \o << <<"content">>, <<"authors">> >>
DATA_AUTHORS_PATH == HUGO_PROJECT_PATH \o << <<"data">>, <<"authors">> >>
CONTENT_BLOG_PATH == HUGO_PROJECT_PATH \o << <<"content">>, <<"blog">> >>
CLONE_PATH == HUGO_PROJECT_PATH \o << <<"repo_clone">> >>
CODE_SERVER_BASE == <<"http://localhost:8087/">>
REPO_FULL_NAME == <<"your-org", "/", "your-repo">>

-----------------------------------------------------------------------------
(* pathlib and the filesystem *)

Dot == <<".">>
DotDot == <<".", ".">>

(* The segments of a text: split at "/", empty and "." segments dropped *)
RECURSIVE SplitFrom(_, _)
SplitFrom(s, cur) ==
    IF s = <<>> THEN (IF cur \in {<<>>, Dot} THEN <<>> ELSE <<cur>>)
    ELSE IF Head(s) = "/"
         THEN (IF cur \in {<<>>, Dot} THEN <<>> ELSE <<cur>>) \o SplitFrom(Tail(s), <<>>)
         ELSE SplitFrom(Tail(s), cur \o <<Head(s)>>)

Segments(s) == SplitFrom(s, <<>>)

(* Path.__truediv__: an absolute right operand replaces the left one *)
Join(base, s) ==
    IF s # <<>> /\ Head(s) = "/" THEN Segments(s) ELSE base \o Segments(s)

(* What the kernel makes of a lexical path: ".." steps to the parent *)
RECURSIVE Resolve(_)
Resolve(p) ==
    IF p = <<>> THEN <<>>
    ELSE LET r == Resolve(SubSeq(p, 1, Len(p) - 1))
         IN  IF p[Len(p)] = DotDot
             THEN (IF r = <<>> THEN <<>> ELSE SubSeq(r, 1, Len(r) - 1))
             ELSE Append(r, p[Len(p)])

Prefixes(p) == {SubSeq(p, 1, i) : i \in 0..Len(p)}
ProperPrefixes(p) == {SubSeq(p, 1, i) : i \in 0..(Len(p) - 1)}

NoError == <<>>

(* Path.mkdir(parents=True, exist_ok=True) *)
mkdir(fs, p) ==
    IF \E q \in Prefixes(p) : Resolve(q) \in DOMAIN fs.files
    THEN [dirs |-> fs.dirs, files |-> fs.files,
          error |-> <<"[Errno 17] File exists">>]
    ELSE [dirs |-> fs.dirs \cup {Resolve(q) : q \in Prefixes(p)},
          files |-> fs.files, error |-> NoError]

(* write_text that appends to a file that is already there *)
write_text_append(fs, p, content) ==
    IF \E q \in ProperPrefixes(p) : Resolve(q) \notin fs.dirs
    THEN [dirs |-> fs.dirs, files |-> fs.files,
          error |-> <<"[Errno 2] No such file or directory">>]
    ELSE IF Resolve(p) \in fs.dirs
    THEN [dirs |-> fs.dirs, files |-> fs.files,
          error |-> <<"[Errno 21] Is a directory">>]
    ELSE [dirs |-> fs.dirs,
          files |-> [q \in DOMAIN fs.files \cup {Resolve(p)} |->
                        IF q # Resolve(p) THEN fs.files[q]
                        ELSE IF q \in DOMAIN fs.files THEN fs.files[q] \o content
                        ELSE content],
          error |-> NoError]

(* Path.write_text *)
write_text(fs, p, content) ==
    IF \E q \in ProperPrefixes(p) : Resolve(q) \notin fs.dirs
    THEN [dirs |-> fs.dirs, files |-> fs.files,
          error |-> <<"[Errno 2] No such file or directory">>]
    ELSE IF Resolve(p) \in fs.dirs
    THEN [dirs |-> fs.dirs, files |-> fs.files,
          error |-> <<"[Errno 21] Is a directory">>]
    ELSE [dirs |-> fs.dirs,
          files |-> [q \in DOMAIN fs.files \cup {Resolve(p)} |->
                        IF q = Resolve(p) THEN content ELSE fs.files[q]],
          error |-> NoError]

(* The directories made at import time *)
InitDirs ==
    UNION {Prefixes(p) : p \in {CONTENT_AUTHORS_PATH, DATA_AUTHORS_PATH, CONTENT_BLOG_PATH}}

-----------------------------------------------------------------------------
(* Helper functions *)

list_authors(fs) ==
    sorted({d[Len(d)] : d \in {e \in fs.dirs : /\ Len(e) = Len(CONTENT_AUTHORS_PATH) + 1
                                               /\ SubSeq(e, 1, Len(e) - 1) = CONTENT_AUTHORS_PATH}})

(* format_author_name that replaces before it strips *)
format_author_name_late_strip(name) == lower(strip(replace(name, " ", "-")))

format_author_name(name) == lower(replace(strip(name), " ", "-"))


-----------------------------------------------------------------------------
(* Results of the handlers.  status is the status text, NoStatus when the   *)
(* handler raised; raised is the message of the exception that left the     *)
(* handler, NoError when it returned.                                       *)

(* The cross mark U+274C and the check mark U+2705 that open a status *)
FAILURE_MARK == "U+274C"
SUCCESS_MARK == "U+2705"
NoStatus == <<>>
NoUpdate == <<"gr.update()">>

(* json.dumps of a str: the characters JSON escapes *)
RECURSIVE json_string(_)
json_string(s) ==
    IF s = <<>> THEN <<>>
    ELSE (CASE Head(s) = "\t" -> <<"\\", "t">>
            [] Head(s) = "\n" -> <<"\\", "n">>
            [] Head(s) = "\"" -> <<"\\", "\"">>
            [] Head(s) = "\\" -> <<"\\", "\\">>
            [] OTHER -> <<Head(s)>>) \o json_string(Tail(s))

(* json.dumps({"name": .., "bio": .., "image": ..}, indent=2) *)
json_dumps(name, bio, image) ==
    <<"{\n  \"name\": \"">> \o json_string(name)
        \o <<"\",\n  \"bio\": \"">> \o json_string(bio)
        \o <<"\",\n  \"image\": \"">> \o json_string(image) \o <<"\"\n}">>

author_index(name_formatted) == <<"---\ntitle: ">> \o name_formatted \o <<"\n---\n">>

-----------------------------------------------------------------------------
(* Author functions *)

author_rejected(fs) ==
    [dirs |-> fs.dirs, files |-> fs.files, raised |-> NoError,
     status |-> <<FAILURE_MARK, " Please enter a valid author name.">>,
     choices |-> NoUpdate, value |-> NoUpdate]

author_written(fs, name) ==
         LET name_formatted == format_author_name(name)
             author_dir == Join(CONTENT_AUTHORS_PATH, name_formatted)
             r1 == mkdir(fs, author_dir)
             r2 == write_text(r1, Join(author_dir, <<"_index.md">>),
                              author_index(name_formatted))
             r3 == write_text(r2, Join(DATA_AUTHORS_PATH, name_formatted \o <<".json">>),
                              json_dumps(name_formatted, <<>>, <<>>))
             failed == IF r1.error # NoError THEN r1
                       ELSE IF r2.error # NoError THEN r2 ELSE r3
             authors == list_authors(r3)
         IN  IF failed.error # NoError
             THEN [dirs |-> failed.dirs, files |-> failed.files, raised |-> failed.error,
                   status |-> NoStatus, choices |-> NoUpdate, value |-> NoUpdate]
             ELSE [dirs |-> r3.dirs, files |-> r3.files, raised |-> NoError,
                   status |-> <<SUCCESS_MARK, " Author '">> \o name_formatted
                                 \o <<"' created! (">> \o Digits(Len(authors))
                                 \o <<" total)">>,
                   choices |-> authors, value |-> name_formatted]

(* create_author with the whitespace test left out *)
create_author_unstripped(fs, name) ==
    IF name = <<>> THEN author_rejected(fs) ELSE author_written(fs, name)

create_author(fs, name) ==
    IF name = <<>> \/ strip(name) = <<>>
    THEN author_rejected(fs)
    ELSE author_written(fs, name)

-----------------------------------------------------------------------------
(* Article function *)

IsAlnum(c) ==
    \/ \E i \in DOMAIN UpperCase : UpperCase[i] = c
    \/ \E i \in DOMAIN LowerCase : LowerCase[i] = c
    \/ \E i \in DOMAIN DigitChars : DigitChars[i] = c

IsDigit(c) == \E i \in DOMAIN DigitChars : DigitChars[i] = c

(* slugify's NUMBERS_PATTERN: a comma between two digits is dropped *)
DropNumberCommas(s) ==
    LET keep == {i \in DOMAIN s : ~(/\ s[i] = ","
                                    /\ i > 1 /\ i < Len(s)
                                    /\ IsDigit(s[i - 1]) /\ IsDigit(s[i + 1]))}
        F[i \in 0..Len(s)] ==
            IF i = 0 THEN <<>>
            ELSE IF i \in keep THEN Append(F[i - 1], s[i]) ELSE F[i - 1]
    IN  F[Len(s)]

(* Runs of characters that are not alphanumeric become one "-" *)
RECURSIVE Hyphenate(_, _)
Hyphenate(s, pending) ==
    IF s = <<>> THEN <<>>
    ELSE IF IsAlnum(Head(s))
         THEN (IF pending THEN <<"-">> ELSE <<>>) \o <<LowerChar(Head(s))>>
                 \o Hyphenate(Tail(s), FALSE)
         ELSE Hyphenate(Tail(s), TRUE)

RECURSIVE StripHyphens(_)
StripHyphens(s) ==
    IF s # <<>> /\ Head(s) = "-" THEN StripHyphens(Tail(s))
    ELSE IF s # <<>> /\ s[Len(s)] = "-" THEN StripHyphens(SubSeq(s, 1, Len(s) - 1))
    ELSE s

slugify(title) == StripHyphens(Hyphenate(DropNumberCommas(title), FALSE))

(* strftime("%Y-%m-%d") *)
date_only(t) == Digits(t.y) \o <<"-">> \o Pad2(t.m) \o <<"-">> \o Pad2(t.d)

front_matter(title, author_name, t) ==
    <<"---\ntitle: \"">> \o title \o <<"\"\nauthor: ">> \o author_name
        \o <<"\ndate: ">> \o date_only(t) \o <<"\n---\n">>

article_rejected(fs) ==
    [dirs |-> fs.dirs, files |-> fs.files, raised |-> NoError,
     status |-> <<FAILURE_MARK, " Please provide both title and author.">>,
     branch_name |-> NoUpdate, vscode_link |-> NoUpdate,
     preview_link |-> NoUpdate, article_dir |-> <<>>]

article_written(fs, t, title, author_name) ==
         LET y == Digits(t.y)
             m == Pad2(t.m)
             article_slug == slugify(title)
             article_dir == Join(Join(Join(CONTENT_BLOG_PATH, y), m), article_slug)
             r1 == mkdir(fs, article_dir)
             r2 == write_text(r1, Join(article_dir, <<"index.md">>),
                              front_matter(title, author_name, t))
             failed == IF r1.error # NoError THEN r1 ELSE r2
         IN  IF failed.error # NoError
             THEN [dirs |-> failed.dirs, files |-> failed.files, raised |-> failed.error,
                   status |-> NoStatus, branch_name |-> NoUpdate,
                   vscode_link |-> NoUpdate, preview_link |-> NoUpdate,
                   article_dir |-> article_dir]
             ELSE [dirs |-> r2.dirs, files |-> r2.files, raised |-> NoError,
                   status |-> <<SUCCESS_MARK, " Article '">> \o title
                                 \o <<"' created by ">> \o author_name \o <<".">>,
                   branch_name |-> <<"add/">> \o article_slug,
                   vscode_link |-> CODE_SERVER_BASE \o <<"?folder=/project/content/blog/">>
                                      \o y \o <<"/">> \o m \o <<"/">> \o article_slug,
                   preview_link |-> <<"http://localhost:1313/blog/">>
                                      \o y \o <<"/">> \o m \o <<"/">> \o article_slug \o <<"/">>,
                   article_dir |-> article_dir]

(* create_article that tests the title only *)
create_article_title_only(fs, t, title, author_name) ==
    IF title = <<>> THEN article_rejected(fs)
    ELSE article_written(fs, t, title, author_name)

create_article(fs, t, title, author_name) ==
    IF title = <<>> \/ author_name = <<>>
    THEN article_rejected(fs)
    ELSE article_written(fs, t, title, author_name)

-----------------------------------------------------------------------------
(* Inputs *)

Texts(chars, n) == UNION {[1..k -> chars] : k \in 0..n}

NameChars == {"B", " ", "/"}

(* Names typed into the author form *)
Names ==
    Texts(NameChars, MaxNameLen)
        \cup { <<"J", "a", "n", "e", " ", "D", "o", "e">>,
               <<" ", "\t">>,
               <<"a", "/", "b">>,
               <<".", ".">> }

(* Titles typed into the article form *)
Titles ==
    { <<>>,
      <<"H", "i", ",", " ", "W", "!">>,
      <<"h", "i", " ", "w">>,
      <<"!", "!">>,
      <<" ">> }

(* Values of the author dropdown *)
AuthorChoices == { <<>>, <<"amy">>, <<"bob">> }

(* Readings of the wall clock *)
Dates ==
    { [y |-> 2026, m |-> 11, d |-> 4],
      [y |-> 2026, m |-> 11, d |-> 5],
      [y |-> 2026, m |-> 12, d |-> 1] }

StartDate == [y |-> 2026, m |-> 11, d |-> 4]

Later(t, u) ==
    \/ u.y > t.y
    \/ u.y = t.y /\ u.m > t.m
    \/ u.y = t.y /\ u.m = t.m /\ u.d > t.d

-----------------------------------------------------------------------------
(* State *)

FS == [dirs |-> dirs, files |-> files]

EmptyLog == [authorCalls |-> {}, articleCalls |-> <<>>,
             nAuthor |-> 0, nArticle |-> 0, nGit |-> 0, nFork |-> 0, clones |-> 0]

NoAccount == <<>>

NoWorkingCopy == [state |-> "absent", branches |-> {}, head |-> <<>>,
                  dirty |-> FALSE, commits |-> 0, pushed |-> {}]

InitContent ==
    /\ dirs = InitDirs
    /\ files = [p \in {} |-> <<>>]
    /\ now = StartDate
    /\ repos = NoAccount
    /\ wc = NoWorkingCopy
    /\ last = [op |-> "load"]
    /\ log = EmptyLog

-----------------------------------------------------------------------------
(* Content store handlers *)

ValidName(name) == name # <<>> /\ ~(Range(name) \subseteq Whitespace)

CreateAuthor ==
    /\ log.nAuthor < MaxAuthorCalls
    /\ \E name \in Names :
          LET r == create_author(FS, name)
          IN  /\ dirs' = r.dirs
              /\ files' = r.files
              /\ last' = [op |-> "create_author", name |-> name,
                          status |-> r.status, raised |-> r.raised,
                          choices |-> r.choices, value |-> r.value,
                          changed |-> (r.dirs # dirs \/ r.files # files)]
              /\ log' = [log EXCEPT
                            !.authorCalls = IF ValidName(name) THEN @ \cup {name} ELSE @,
                            !.nAuthor = @ + 1]
    /\ UNCHANGED <<now, repos, wc>>

(* The arrows mark U+1F504 that opens the refresh status *)
REFRESH_MARK == "U+1F504"

None == <<"None">>

refresh_authors(fs, default_author) ==
    LET authors == list_authors(fs)
    IN  [status |-> <<REFRESH_MARK, " Refreshed! (">> \o Digits(Len(authors))
                       \o <<" authors)">>,
         choices |-> authors,
         value |-> IF default_author \in Range(authors) THEN default_author
                   ELSE IF authors # <<>> THEN authors[1] ELSE None]

RefreshAuthors ==
    /\ LET r == refresh_authors(FS, <<"espressif">>)
       IN  last' = [op |-> "refresh_authors", status |-> r.status,
                    choices |-> r.choices, value |-> r.value]
    /\ UNCHANGED <<dirs, files, now, repos, wc, log>>

CreateArticle ==
    /\ log.nArticle < MaxArticleCalls
    /\ \E title \in Titles, author_name \in AuthorChoices :
          LET r == create_article(FS, now, title, author_name)
          IN  /\ dirs' = r.dirs
              /\ files' = r.files
              /\ last' = [op |-> "create_article", title |-> title,
                          author_name |-> author_name, date |-> now,
                          status |-> r.status, raised |-> r.raised,
                          branch_name |-> r.branch_name,
                          vscode_link |-> r.vscode_link,
                          preview_link |-> r.preview_link,
                          newDirs |-> r.dirs \ dirs,
                          written |-> {p \in DOMAIN r.files :
                                          p \notin DOMAIN files \/ r.files[p] # files[p]},
                          changed |-> (r.dirs # dirs \/ r.files # files)]
              /\ log' = [log EXCEPT
                            !.articleCalls =
                                IF r.raised = NoError /\ r.status[1] = SUCCESS_MARK
                                THEN Append(@, [title |-> title, author_name |-> author_name,
                                                date |-> now])
                                ELSE @,
                            !.nArticle = @ + 1]
    /\ UNCHANGED <<now, repos, wc>>

(* The wall clock moves on *)
Tick ==
    /\ \E t \in Dates : Later(now, t) /\ now' = t
    /\ UNCHANGED <<dirs, files, repos, wc, last, log>>

NextAuthor == CreateAuthor \/ RefreshAuthors

SpecAuthor == InitContent /\ [][NextAuthor]_vars

NextArticle == CreateArticle \/ Tick

SpecArticle == InitContent /\ [][NextArticle]_vars

-----------------------------------------------------------------------------
(* Git functions.                                                           *)
(*                                                                          *)
(* repos is what user.get_repos() lists, in order: records of full_name     *)
(* and fork, fork being TRUE for a fork of the upstream repository.  wc is  *)
(* the directory at CLONE_PATH: absent, a valid working copy, or a          *)
(* directory that is no repository.  A fault is a failure of the outside    *)
(* world (network, SSH) at one step of a call; a bad token fails every      *)
(* request to the hosting API.                                              *)

LOGIN == <<"octo">>

VALID_PAT == <<"ghp_valid">>

Pats == {VALID_PAT, <<"ghp_revoked">>}

BAD_CREDENTIALS == <<"401 {\"message\": \"Bad credentials\"}">>

NETWORK_DOWN == <<"Connection refused">>

NoFault == [step |-> "none", msg |-> NoError, leaves |-> "absent"]

ApiSteps == {"get_repo", "get_repos", "create_fork"}

StepFaults(steps) == {[step |-> st, msg |-> NETWORK_DOWN, leaves |-> "absent"] : st \in steps}

(* What can go wrong inside find_or_create_fork *)
ForkFaults == {NoFault} \cup StepFaults(ApiSteps)

(* ... and inside clone_or_open_repo: a failed clone may leave nothing, a
   working copy (the checkout failed) or a directory that is no repository *)
CloneFaults ==
    ForkFaults
        \cup {[step |-> "clone_from", msg |-> NETWORK_DOWN, leaves |-> l] :
                 l \in {"absent", "valid", "invalid"}}

(* The causes of failure a call meets: a revoked token, or a fault *)
Causes(faults) ==
    {[pat |-> VALID_PAT, fault |-> f] : f \in faults}
        \cup {[pat |-> p, fault |-> NoFault] : p \in Pats}

(* A push the remote rejects (not a fast-forward) raises nothing *)
Rejected == [step |-> "rejected", msg |-> NoError, leaves |-> "absent"]

(* repo.name of g.get_repo(REPO_FULL_NAME) *)
repo_name == SubSeq(REPO_FULL_NAME, 3, Len(REPO_FULL_NAME))

NoRepo == [full_name |-> <<>>, fork |-> FALSE]

(* next((f for f in user.get_repos() if f.full_name.endswith(repo.name)), None) *)
find_fork(rs) ==
    IF \E i \in DOMAIN rs : endswith(rs[i].full_name, repo_name)
    THEN rs[CHOOSE i \in DOMAIN rs :
               /\ endswith(rs[i].full_name, repo_name)
               /\ \A j \in 1..(i - 1) : ~endswith(rs[j].full_name, repo_name)]
    ELSE NoRepo

(* user.create_fork(repo) at the host: an account has one fork of a         *)
(* repository at most, and forking again answers with that fork             *)
create_fork(rs) ==
    IF \E i \in DOMAIN rs : rs[i].fork
    THEN [repos |-> rs, fork |-> rs[CHOOSE i \in DOMAIN rs : rs[i].fork]]
    ELSE LET f == [full_name |-> LOGIN \o <<"/">> \o repo_name, fork |-> TRUE]
         IN  [repos |-> Append(rs, f), fork |-> f]

(* The request of one step to the hosting API: NoError when it answers *)
api_error(step, pat, fault) ==
    IF fault.step = step THEN fault.msg
    ELSE IF pat # VALID_PAT THEN BAD_CREDENTIALS
    ELSE NoError

(* find_or_create_fork that asks the host for a fork without looking first *)
always_create_fork(rs, pat, fault) ==
    LET e1 == api_error("get_repo", pat, fault)
        e3 == api_error("create_fork", pat, fault)
        made == create_fork(rs)
    IN  IF e1 # NoError
        THEN [error |-> e1, repos |-> rs, fork |-> NoRepo, asked |-> FALSE]
        ELSE IF e3 # NoError
        THEN [error |-> e3, repos |-> rs, fork |-> NoRepo, asked |-> TRUE]
        ELSE [error |-> NoError, repos |-> made.repos, fork |-> made.fork, asked |-> TRUE]

(* The lookup both fork_repo and clone_or_open_repo start with *)
find_or_create_fork(rs, pat, fault) ==
    LET e1 == api_error("get_repo", pat, fault)
        e2 == api_error("get_repos", pat, fault)
        e3 == api_error("create_fork", pat, fault)
        found == find_fork(rs)
        made == create_fork(rs)
    IN  IF e1 # NoError
        THEN [error |-> e1, repos |-> rs, fork |-> NoRepo, asked |-> FALSE]
        ELSE IF e2 # NoError
        THEN [error |-> e2, repos |-> rs, fork |-> NoRepo, asked |-> FALSE]
        ELSE IF found # NoRepo
        THEN [error |-> NoError, repos |-> rs, fork |-> found, asked |-> FALSE]
        ELSE IF e3 # NoError
        THEN [error |-> e3, repos |-> rs, fork |-> NoRepo, asked |-> TRUE]
        ELSE [error |-> NoError, repos |-> made.repos, fork |-> made.fork, asked |-> TRUE]

(* A handler that lets the exception through *)
failure_raised(what, error) == [status |-> NoStatus, raised |-> error]

(* except Exception as e: return f"<mark> <what> failed: {str(e)}" *)
failure_status(what, error) ==
    [status |-> <<FAILURE_MARK, " ", what, " failed: ">> \o error, raised |-> NoError]

success_status(text) == [status |-> <<SUCCESS_MARK, " ">> \o text, raised |-> NoError]

fork_repo(rs, pat, fault) ==
    LET r == find_or_create_fork(rs, pat, fault)
        out == IF r.error # NoError THEN failure_status("Fork", r.error)
               ELSE success_status(<<"Forked repo: ">> \o r.fork.full_name)
    IN  [repos |-> r.repos, status |-> out.status, raised |-> out.raised,
         error |-> r.error, lookedUp |-> TRUE, asked |-> r.asked]

(* What Repo.clone_from leaves at CLONE_PATH *)
FreshClone == [state |-> "valid", branches |-> {<<"main">>}, head |-> <<"main">>,
               dirty |-> FALSE, commits |-> 0, pushed |-> {<<"main">>}]

NotARepo == [state |-> "invalid", branches |-> {}, head |-> <<>>,
             dirty |-> FALSE, commits |-> 0, pushed |-> {}]

AfterFailedClone(leaves) ==
    CASE leaves = "valid" -> FreshClone
      [] leaves = "invalid" -> NotARepo
      [] OTHER -> NoWorkingCopy

(* Repo(CLONE_PATH) *)
open_error(w) ==
    IF w.state = "valid" THEN NoError ELSE <<"/project/repo_clone">>

(* clone_or_open_repo that does not look at CLONE_PATH first *)
always_clone_repo(rs, w, pat, fault) ==
    LET r == find_or_create_fork(rs, pat, fault)
    IN  IF r.error # NoError
        THEN [repos |-> r.repos, wc |-> w, error |-> r.error,
              lookedUp |-> TRUE, asked |-> r.asked, cloned |-> FALSE]
        ELSE IF fault.step = "clone_from"
        THEN [repos |-> r.repos, wc |-> AfterFailedClone(fault.leaves),
              error |-> fault.msg, lookedUp |-> TRUE, asked |-> r.asked,
              cloned |-> fault.leaves # "absent"]
        ELSE [repos |-> r.repos, wc |-> FreshClone, error |-> NoError,
              lookedUp |-> TRUE, asked |-> r.asked, cloned |-> TRUE]

clone_or_open_repo(rs, w, pat, fault) ==
    IF w.state # "absent"
    THEN [repos |-> rs, wc |-> w, error |-> open_error(w),
          lookedUp |-> FALSE, asked |-> FALSE, cloned |-> FALSE]
    ELSE LET r == find_or_create_fork(rs, pat, fault)
         IN  IF r.error # NoError
             THEN [repos |-> r.repos, wc |-> w, error |-> r.error,
                   lookedUp |-> TRUE, asked |-> r.asked, cloned |-> FALSE]
             ELSE IF fault.step = "clone_from"
             THEN [repos |-> r.repos, wc |-> AfterFailedClone(fault.leaves),
                   error |-> fault.msg, lookedUp |-> TRUE, asked |-> r.asked,
                   cloned |-> fault.leaves # "absent"]
             ELSE [repos |-> r.repos, wc |-> FreshClone, error |-> NoError,
                   lookedUp |-> TRUE, asked |-> r.asked, cloned |-> TRUE]

(* The result of a git handler from what the shared step and its own step did *)
GitResult(o, w, error, out, madeCommit, hadChanges) ==
    [repos |-> o.repos, wc |-> w, status |-> out.status, raised |-> out.raised,
     error |-> error, lookedUp |-> o.lookedUp, asked |-> o.asked, cloned |-> o.cloned,
     madeCommit |-> madeCommit, hadChanges |-> hadChanges]

create_branch(rs, w, branch_name, pat, fault) ==
    LET o == clone_or_open_repo(rs, w, pat, fault)
        e == IF o.error # NoError THEN o.error
             ELSE IF fault.step = "checkout" THEN fault.msg
             ELSE IF branch_name \in o.wc.branches
             THEN <<"fatal: a branch named '">> \o branch_name \o <<"' already exists">>
             ELSE NoError
    IN  IF e # NoError
        THEN GitResult(o, o.wc, e, failure_status("Branch", e), FALSE, o.wc.dirty)
        ELSE GitResult(o, [o.wc EXCEPT !.branches = @ \cup {branch_name},
                                       !.head = branch_name],
                       NoError,
                       success_status(<<"Branch '">> \o branch_name \o <<"' created.">>),
                       FALSE, o.wc.dirty)

(* repo.git.add(A=True) stages what is pending; repo.index.commit(message)  *)
(* writes a commit of the index whether or not it differs from its parent   *)
commit_changes(rs, w, message, pat, fault) ==
    LET o == clone_or_open_repo(rs, w, pat, fault)
        e == IF o.error # NoError THEN o.error
             ELSE IF fault.step \in {"add", "commit"} THEN fault.msg
             ELSE NoError
    IN  IF e # NoError
        THEN GitResult(o, o.wc, e, failure_status("Commit", e), FALSE, o.wc.dirty)
        ELSE GitResult(o, [o.wc EXCEPT !.dirty = FALSE, !.commits = @ + 1],
                       NoError,
                       success_status(<<"Committed: '">> \o message \o <<"'">>),
                       TRUE, o.wc.dirty)

(* origin.push(refspec) raises when git reports nothing per ref (no such    *)
(* local branch, no connection); a rejected ref comes back as a flag        *)
push_changes(rs, w, branch_name, pat, fault) ==
    LET o == clone_or_open_repo(rs, w, pat, fault)
        e == IF o.error # NoError THEN o.error
             ELSE IF fault.step \in {"remote", "push"} THEN fault.msg
             ELSE IF branch_name \notin o.wc.branches
             THEN <<"error: src refspec ">> \o branch_name \o <<" does not match any">>
             ELSE NoError
    IN  IF e # NoError
        THEN GitResult(o, o.wc, e, failure_status("Push", e), FALSE, o.wc.dirty)
        ELSE GitResult(o, IF fault.step = "rejected" THEN o.wc
                          ELSE [o.wc EXCEPT !.pushed = @ \cup {branch_name}],
                       NoError,
                       success_status(<<"Pushed '">> \o branch_name \o <<"'">>),
                       FALSE, o.wc.dirty)

-----------------------------------------------------------------------------
(* Repository client handlers *)

TheFork == [full_name |-> LOGIN \o <<"/">> \o repo_name, fork |-> TRUE]

RenamedFork == [full_name |-> LOGIN \o <<"/", "blog-fork">>, fork |-> TRUE]

Lookalike == [full_name |-> LOGIN \o <<"/", "not-">> \o repo_name, fork |-> FALSE]

Notes == [full_name |-> LOGIN \o <<"/", "notes">>, fork |-> FALSE]

Upstream == [full_name |-> REPO_FULL_NAME, fork |-> FALSE]

(* Accounts the token may belong to *)
Accounts ==
    { <<>>, <<TheFork>>, <<Notes, TheFork>>, <<Lookalike>>,
      <<Lookalike, TheFork>>, <<TheFork, Lookalike>>, <<RenamedFork>>, <<Upstream>> }

BranchNames == { <<"main">>, <<"add/hi-w">> }

Messages == { <<"Add authors/articles">> }

InitGit ==
    /\ files = [p \in {} |-> <<>>]
    /\ now = StartDate
    /\ repos \in Accounts
    /\ wc \in {NoWorkingCopy, FreshClone, NotARepo}
    /\ dirs = IF wc.state = "absent" THEN InitDirs ELSE InitDirs \cup {CLONE_PATH}
    /\ last = [op |-> "load"]
    /\ log = EmptyLog

HasFork(rs) == \E i \in DOMAIN rs : rs[i].fork

NumForks(rs) == Cardinality({i \in DOMAIN rs : rs[i].fork})

(* What a call leaves in last and log *)
GitLast(op, arg, pat, r) ==
    [op |-> op, arg |-> arg, pat |-> pat,
     status |-> r.status, raised |-> r.raised, error |-> r.error,
     lookedUp |-> r.lookedUp, asked |-> r.asked, cloned |-> r.cloned,
     madeCommit |-> r.madeCommit, hadChanges |-> r.hadChanges,
     existed |-> wc.state # "absent", hadFork |-> HasFork(repos),
     forks |-> <<NumForks(repos), NumForks(r.repos)>>,
     listed |-> repos]

GitLog(op, r) ==
    [log EXCEPT !.nGit = @ + 1,
                !.nFork = IF op = "fork_repo" THEN @ + 1 ELSE @,
                !.clones = IF r.cloned THEN @ + 1 ELSE @]

WithClonePath(w) == IF w.state = "absent" THEN dirs ELSE dirs \cup {CLONE_PATH}

ForkRepo ==
    /\ log.nGit < MaxGitCalls
    /\ \E c \in Causes(ForkFaults) :
          LET f == fork_repo(repos, c.pat, c.fault)
              r == [repos |-> f.repos, wc |-> wc, status |-> f.status,
                    raised |-> f.raised, error |-> f.error,
                    lookedUp |-> f.lookedUp, asked |-> f.asked, cloned |-> FALSE,
                    madeCommit |-> FALSE, hadChanges |-> wc.dirty]
          IN  /\ repos' = r.repos
              /\ last' = GitLast("fork_repo", <<>>, c.pat, r)
              /\ log' = GitLog("fork_repo", r)
    /\ UNCHANGED <<dirs, files, now, wc>>

CreateBranch ==
    /\ log.nGit < MaxGitCalls
    /\ \E branch_name \in BranchNames,
          c \in Causes(CloneFaults \cup StepFaults({"checkout"})) :
          LET r == create_branch(repos, wc, branch_name, c.pat, c.fault)
          IN  /\ repos' = r.repos
              /\ wc' = r.wc
              /\ dirs' = WithClonePath(r.wc)
              /\ last' = GitLast("create_branch", branch_name, c.pat, r)
              /\ log' = GitLog("create_branch", r)
    /\ UNCHANGED <<files, now>>

CommitChanges ==
    /\ log.nGit < MaxGitCalls
    /\ \E message \in Messages,
          c \in Causes(CloneFaults \cup StepFaults({"add", "commit"})) :
          LET r == commit_changes(repos, wc, message, c.pat, c.fault)
          IN  /\ repos' = r.repos
              /\ wc' = r.wc
              /\ dirs' = WithClonePath(r.wc)
              /\ last' = GitLast("commit_changes", message, c.pat, r)
              /\ log' = GitLog("commit_changes", r)
    /\ UNCHANGED <<files, now>>

PushChanges ==
    /\ log.nGit < MaxGitCalls
    /\ \E branch_name \in BranchNames,
          c \in Causes(CloneFaults \cup StepFaults({"remote", "push"}) \cup {Rejected}) :
          LET r == push_changes(repos, wc, branch_name, c.pat, c.fault)
          IN  /\ repos' = r.repos
              /\ wc' = r.wc
              /\ dirs' = WithClonePath(r.wc)
              /\ last' = GitLast("push_changes", branch_name, c.pat, r)
              /\ log' = GitLog("push_changes", r)
    /\ UNCHANGED <<files, now>>

(* The operator edits files of the working copy *)
EditWorkingCopy ==
    /\ wc.state = "valid"
    /\ ~wc.dirty
    /\ wc' = [wc EXCEPT !.dirty = TRUE]
    /\ UNCHANGED <<dirs, files, now, repos, last, log>>

NextGit == ForkRepo \/ CreateBranch \/ CommitChanges \/ PushChanges \/ EditWorkingCopy

SpecGit == InitGit /\ [][NextGit]_vars

-----------------------------------------------------------------------------
(* format_author_name on its own *)

FmtChars == {"B", " ", "\t", "/"}

InitFmt ==
    /\ dirs = InitDirs
    /\ files = [p \in {} |-> <<>>]
    /\ now = StartDate
    /\ repos = NoAccount
    /\ wc = NoWorkingCopy
    /\ last \in {[op |-> "input", name |-> n] : n \in Texts(FmtChars, MaxFmtLen)}
    /\ log = EmptyLog

(* A str method raises nothing on a str *)
FormatAuthorName ==
    /\ last.op = "input"
    /\ last' = [op |-> "format_author_name", name |-> last.name,
                value |-> format_author_name(last.name), raised |-> NoError]
    /\ UNCHANGED <<dirs, files, now, repos, wc, log>>

NextFmt == FormatAuthorName

SpecFmt == InitFmt /\ [][NextFmt]_vars

-----------------------------------------------------------------------------
(* Properties of the content store *)

SameMonth(t, u) == t.y = u.y /\ t.m = u.m

MonthDir(t) == CONTENT_BLOG_PATH \o <<Digits(t.y), Pad2(t.m)>>

(* The last step was a createArticle that succeeded *)
ArticleCreated ==
    /\ last.op = "create_article"
    /\ last.raised = NoError
    /\ last.status[1] = SUCCESS_MARK

(* ... and an earlier successful call had the same title in the same month *)
RepeatedArticle ==
    /\ ArticleCreated
    /\ \E i \in 1..(Len(log.articleCalls) - 1) :
          /\ log.articleCalls[i].title = last.title
          /\ SameMonth(log.articleCalls[i].date, last.date)

(* C2: createAuthor with an empty or whitespace-only name leaves the
   filesystem as it was, in any store state, and returns the invalid-input
   status. *)
C2_BlankNameRejected ==
    (last.op = "create_author" /\ ~ValidName(last.name)) =>
        /\ ~last.changed
        /\ last.raised = NoError
        /\ last.status = <<FAILURE_MARK, " Please enter a valid author name.">>

C2_Witness ==
    /\ last.op = "create_author"
    /\ last.name # <<>>
    /\ ~ValidName(last.name)
    /\ DOMAIN files # {}

(* C3: createArticle with an empty title or an empty author returns the
   invalid-input status and creates no directory and no file, in any store
   state. *)
C3_MissingFieldRejected ==
    (last.op = "create_article" /\ (last.title = <<>> \/ last.author_name = <<>>)) =>
        /\ ~last.changed
        /\ last.newDirs = {}
        /\ last.written = {}
        /\ last.raised = NoError
        /\ last.status = <<FAILURE_MARK, " Please provide both title and author.">>

C3_Witness ==
    /\ last.op = "create_article"
    /\ last.title # <<>>
    /\ last.author_name = <<>>
    /\ DOMAIN files # {}

(* C4: after any sequence of createAuthor calls, every valid name that was
   passed has its normalized name in listAuthors() and a JSON sidecar under
   that normalized name with name = the normalized name, bio = "" and
   image = "". *)
C4_CreatedAuthorsListed ==
    \A n \in log.authorCalls :
        LET nf == format_author_name(n)
            sidecar == Append(DATA_AUTHORS_PATH, nf \o <<".json">>)
        IN  /\ nf \in Range(list_authors(FS))
            /\ sidecar \in DOMAIN files
            /\ files[sidecar] = json_dumps(nf, <<>>, <<>>)

(* C7: a second successful createArticle with the same title in the same
   year and month creates no further directory, and the front-matter file of
   the slug holds exactly the front matter of the second call. *)
C7_LastWriteWins ==
    RepeatedArticle =>
        LET slug == slugify(last.title)
            dir == IF slug = <<>> THEN MonthDir(last.date)
                   ELSE Append(MonthDir(last.date), slug)
            index == Append(dir, <<"index.md">>)
        IN  /\ last.newDirs = {}
            /\ dir \in dirs
            /\ last.written \subseteq {index}
            /\ index \in DOMAIN files
            /\ files[index] = front_matter(last.title, last.author_name, last.date)

C7_Witness ==
    /\ ArticleCreated
    /\ \E i \in 1..(Len(log.articleCalls) - 1) :
          /\ log.articleCalls[i].title = last.title
          /\ SameMonth(log.articleCalls[i].date, last.date)
          /\ log.articleCalls[i].date # last.date
          /\ log.articleCalls[i].author_name # last.author_name

(* C10: every createArticle call with a non-empty title and a non-empty
   author writes content/blog/<YYYY>/<MM>/<slug>/index.md with a non-empty
   slug, never index.md in the year/month directory itself, and the editor
   link, the preview link and the branch name end in that slug. *)
C10_ArticleUnderSlugDir ==
    (last.op = "create_article" /\ last.title # <<>> /\ last.author_name # <<>>) =>
        LET slug == slugify(last.title)
            index == MonthDir(last.date) \o <<slug, <<"index.md">>>>
        IN  /\ last.raised = NoError
            /\ slug # <<>>
            /\ last.written \subseteq {index}
            /\ index \in DOMAIN files
            /\ Append(MonthDir(last.date), <<"index.md">>) \notin DOMAIN files
            /\ endswith(last.branch_name, <<"add/">> \o slug)
            /\ endswith(last.vscode_link, <<"/">> \o slug)
            /\ endswith(last.preview_link, <<"/">> \o slug \o <<"/">>)

-----------------------------------------------------------------------------
(* Properties of the repository client *)

GitOps == {"fork_repo", "create_branch", "commit_changes", "push_changes"}

Contains(s, t) == \E i \in 0..(Len(s) - Len(t)) : SubSeq(s, i + 1, i + Len(t)) = t

Succeeded == last.raised = NoError /\ last.status # NoStatus /\ last.status[1] = SUCCESS_MARK

Failed == last.raised = NoError /\ last.status # NoStatus /\ last.status[1] = FAILURE_MARK

(* C1: whatever failure is raised inside forkRepository, createBranch,
   commitAll or pushBranch, the shared open-or-clone step included, the
   operation raises nothing to its caller and returns a status that begins
   with the failure marker and contains the message of the error. *)
C1_FailuresBecomeStatus ==
    (last.op \in GitOps /\ last.error # NoError) =>
        /\ last.raised = NoError
        /\ Failed
        /\ Contains(last.status, last.error)

C1_Witness ==
    /\ last.op \in GitOps \ {"fork_repo"}
    /\ ~last.existed
    /\ last.lookedUp
    /\ last.error = BAD_CREDENTIALS
    /\ Failed

(* The repository a fork_repo status names *)
Named == SubSeq(last.status, 4, Len(last.status))

(* C5 as stated: with a fork of the upstream in the account, a forkRepository
   call that nothing interrupts returns a success status naming that fork and
   the number of forks stays at one. *)
C5_NamesTheFork ==
    (last.op = "fork_repo" /\ last.hadFork /\ last.error = NoError) =>
        /\ Succeeded
        /\ \E i \in DOMAIN repos : repos[i].fork /\ repos[i].full_name = Named
        /\ last.forks = <<1, 1>>

(* The first listed repository whose full name ends with the upstream's name *)
FirstMatch(rs) ==
    rs[CHOOSE i \in DOMAIN rs :
          /\ endswith(rs[i].full_name, repo_name)
          /\ \A j \in DOMAIN rs : j < i => ~endswith(rs[j].full_name, repo_name)]

ForkListedByName(rs) ==
    \E i \in DOMAIN rs : rs[i].fork /\ endswith(rs[i].full_name, repo_name)

(* C5: with a fork of the upstream in the account under a name that ends
   with the upstream's short name, a forkRepository call that nothing
   interrupts returns a success status naming the first listed repository
   whose full name ends with that short name, asks for no fork, and the
   number of forks stays at one. *)
C5_ForkIdempotent ==
    (last.op = "fork_repo" /\ ForkListedByName(last.listed) /\ last.error = NoError) =>
        /\ Succeeded
        /\ Named = FirstMatch(last.listed).full_name
        /\ ~last.asked
        /\ repos = last.listed
        /\ last.forks = <<1, 1>>

C5_Witness ==
    /\ last.op = "fork_repo"
    /\ log.nFork >= 2
    /\ ForkListedByName(last.listed)
    /\ last.error = NoError
    /\ Named # TheFork.full_name

(* C6: once the working-copy path exists, createBranch, commitAll and
   pushBranch open it as it is, with no fork lookup, no fork request and no
   clone; the path is made by a clone at most once. *)
C6_OpenedAsIs ==
    /\ (last.op \in GitOps \ {"fork_repo"} /\ last.existed) =>
          /\ ~last.lookedUp
          /\ ~last.asked
          /\ ~last.cloned
          /\ repos = last.listed
    /\ log.clones <= 1

C6_Witness ==
    /\ last.op = "push_changes"
    /\ last.existed
    /\ log.clones = 1
    /\ Succeeded

(* C9: commitAll with nothing pending in the working copy returns a failure
   status and makes no commit; it returns a success status only when a commit
   of staged changes was made. *)
C9_NothingToCommitFails ==
    last.op = "commit_changes" =>
        /\ ~last.hadChanges => (Failed /\ ~last.madeCommit)
        /\ Succeeded => (last.madeCommit /\ last.hadChanges)

-----------------------------------------------------------------------------
(* Properties of format_author_name *)

INVALID_INPUT == <<"invalid input">>

(* C8 as stated: formatAuthorName reports an invalid-input condition whenever
   the trimmed name is empty, and returns a normalized name only for names
   whose trimmed form is not empty. *)
C8_BlankNameFails ==
    last.op = "format_author_name" =>
        (~ValidName(last.name) <=> last.raised = INVALID_INPUT)

(* C8: formatAuthorName reports no invalid-input condition; it returns a
   normalized name for every name, and that name is empty exactly when the
   name is empty after trimming surrounding whitespace. *)
C8_BlankNameGivesEmpty ==
    last.op = "format_author_name" =>
        /\ last.raised = NoError
        /\ (last.value = <<>>) <=> ~ValidName(last.name)
        /\ " " \notin Range(last.value)
        /\ last.value = lower(last.value)

C8_Witness ==
    /\ last.op = "format_author_name"
    /\ last.name # <<>>
    /\ ~ValidName(last.name)
    /\ last.value = <<>>

=============================================================================
